---- MODULE Spec2Model ----
(***************************************************************************)
(* A model of the InspIRCd contrib modules of this repository.             *)
(*                                                                         *)
(* m_ircv3_FILEHOST.cpp: the JWT wrapper (Generate / Verify / GetUsername),*)
(* the FILEHOST command, the reverse.im/filehost tag provider and the      *)
(* outbound-message tagger.                                                *)
(* ircv3_kiwiirctags.cpp: the four KiwiIRC tag providers and the per-user  *)
(* usage statistics.  m_hidewhois.cpp: the typing-tag handler.             *)
(*                                                                         *)
(* Strings that the code searches or cuts are sequences of one-character   *)
(* strings; strings that are only compared or passed on are TLA+ strings.  *)
(* Time is counted in clock ticks: ServerInstance->Time() is a time_t in   *)
(* whole seconds, the verifier's clock (std::chrono::system_clock) is      *)
(* finer, TicksPerSec ticks to the second.                                 *)
(***************************************************************************)
EXTENDS Integers, Sequences, FiniteSets, TLC

VARIABLES
    now,            \* the wall clock, in ticks
    cfg,            \* ModuleFileHost's configuration members, as ReadConfig left them
    cmdTokenExpiry, \* CommandFilehost::token_expiry, the copy taken by the constructor
    held,           \* the token a client got from its last upload notice, with
                    \* the arguments of the Generate call that made it
    fhCap,          \* local users with the reverse.im/filehost capability enabled
    tagCap,         \* local users with the message-tags capability enabled
    verified,       \* the first verification that accepted a held token: the
                    \* token and the verifier's secret and issuer
    providers,      \* the enabled flag and restriction of each KiwiIRC tag provider
    tag_stats,      \* the kiwiirc_tag_usage extension: each user's TagStats
    notify_channel_ops, \* ModuleKiwiIRCTags::notify_channel_ops
    hidewhois,      \* ModuleHideWhois's configuration members
    out             \* what the step just taken sent and returned (op "none"
                    \* after a step that runs no handler)

vars == <<now, cfg, cmdTokenExpiry, held, fhCap, tagCap, verified, providers, tag_stats,
          notify_channel_ops, hidewhois, out>>

-----------------------------------------------------------------------------
(* Bounds of the model *)

MaxNow == 3
TicksPerSec == 2
SigBits == 2
MaxCount == 1

(* Program constants *)

ExpiryMin == 60
ExpiryMax == 86400
ExpiryDefault == 3600
MaxFileMB == 16

-----------------------------------------------------------------------------
(* The population: two local users and one remote user, with their nicks. *)

LocalUsers == {"u1", "u2"}
RemoteUsers == {"r1"}
Users == LocalUsers \cup RemoteUsers

IS_LOCAL(user) == user \in LocalUsers

nick == [u \in Users |-> CASE u = "u1" -> "alice" [] u = "u2" -> "bob" [] OTHER -> "carol"]

\* const std::string* accountname: <<>> is the null pointer, <<s>> points to s.
NoAccount == <<>>
AccountValues == {NoAccount, <<"">>, <<"alice">>, <<"bob">>}

\* What the account service answers when the command asks for the caller's
\* account: the service may be missing (api FALSE), else it returns a pointer.
Lookups ==
    { [api |-> FALSE, name |-> NoAccount] }
    \cup { [api |-> TRUE, name |-> a] : a \in AccountValues }

-----------------------------------------------------------------------------
(* Configuration: the <filehost> tag of the configuration file. *)

DefaultAuthMsg == "Use /msg NickServ IDENTIFY password to log in."

ConfFiles ==
    { [requiressl |-> TRUE,  website |-> <<"w">>, jwt_secret |-> "s1",
       jwt_issuer |-> "FILEHOST", token_expiry |-> 3600, auth_message |-> DefaultAuthMsg],
      [requiressl |-> FALSE, website |-> <<"w", "/">>, jwt_secret |-> "s2",
       jwt_issuer |-> "FILEHOST", token_expiry |-> 60, auth_message |-> "Log in first."],
      [requiressl |-> TRUE,  website |-> <<"v">>, jwt_secret |-> "s1",
       jwt_issuer |-> "other", token_expiry |-> 90000, auth_message |-> DefaultAuthMsg] }

\* ConfigTag::getNum<unsigned int>(key, def, min, max): a value out of range
\* is replaced by the default.
getNum(value, def, min, max) ==
    IF value < min \/ value > max THEN def ELSE value

StripSlash(url) ==
    IF url # <<>> /\ url[Len(url)] = "/" THEN SubSeq(url, 1, Len(url) - 1) ELSE url

\* ModuleFileHost::ReadConfig: the members after reading configuration file c.
ConfigOf(c) ==
    [ require_ssl  |-> c.requiressl,
      public_url   |-> StripSlash(c.website),
      jwt_secret   |-> c.jwt_secret,
      jwt_issuer   |-> c.jwt_issuer,
      token_expiry |-> getNum(c.token_expiry, ExpiryDefault, ExpiryMin, ExpiryMax),
      filehost_auth_msg |-> c.auth_message ]

\* The constructor copies ModuleFileHost::token_expiry into the command
\* before anything has written it: the copy is an indeterminate unsigned int.
UninitExpiry == {0, 1, 3600}

-----------------------------------------------------------------------------
(* JWT: the token service. *)

\* ServerInstance->Time(): the clock in whole seconds.
ServerTime == now \div TicksPerSec

\* The part of a token the signature covers.
SigningInput(t) == [alg |-> t.alg, iss |-> t.iss, sub |-> t.sub, iat |-> t.iat, exp |-> t.exp]

\* jwt::algorithm::hs256{secret}: a keyed MAC, modelled as collision-free.
HS256(secret, data) == [key |-> secret, mac |-> data]

Malformed == [malformed |-> TRUE]
NoToken == [none |-> TRUE]
NoVerdict == [none |-> TRUE]

\* Generate with the issuer set as the subject
GenerateWrongSubject(username, secret, issuer, expiry) ==
    LET body == [alg |-> "HS256", iss |-> issuer, sub |-> issuer,
                 iat |-> ServerTime, exp |-> expiry]
    IN  [alg |-> body.alg, iss |-> body.iss, sub |-> body.sub, iat |-> body.iat,
         exp |-> body.exp, sig |-> HS256(secret, body)]

\* JWT::Generate
Generate(username, secret, issuer, expiry) ==
    LET body == [alg |-> "HS256", iss |-> issuer, sub |-> username,
                 iat |-> ServerTime, exp |-> expiry]
    IN  [alg |-> body.alg, iss |-> body.iss, sub |-> body.sub, iat |-> body.iat,
         exp |-> body.exp, sig |-> HS256(secret, body)]

\* jwt::decode succeeds
CanDecode(token) == token # Malformed /\ token # NoToken

\* Verify without the check of exp
VerifyNoExpiry(token, secret, issuer) ==
    /\ CanDecode(token)
    /\ token.alg = "HS256"
    /\ token.sig = HS256(secret, SigningInput(token))
    /\ ~(now < token.iat * TicksPerSec)
    /\ token.iss = issuer

\* Verify without the check of the signature
VerifyNoSignature(token, secret, issuer) ==
    /\ CanDecode(token)
    /\ token.alg = "HS256"
    /\ ~(now > token.exp * TicksPerSec)
    /\ ~(now < token.iat * TicksPerSec)
    /\ token.iss = issuer

\* Verify turning down a token that a verification accepted before
VerifySingleUse(token, secret, issuer) ==
    /\ CanDecode(token)
    /\ token.alg = "HS256"
    /\ token.sig = HS256(secret, SigningInput(token))
    /\ ~(now > token.exp * TicksPerSec)
    /\ ~(now < token.iat * TicksPerSec)
    /\ token.iss = issuer
    /\ (verified = NoVerdict \/ verified.token # token)

\* JWT::Verify: decode, then the verifier's checks: the algorithm is the
\* allowed one, the signature is the MAC of the signed part under the secret,
\* the clock is not past exp and not before iat, and iss is the issuer.
\* Any failure throws, and the catch returns false.
Verify(token, secret, issuer) ==
    /\ CanDecode(token)
    /\ token.alg = "HS256"
    /\ token.sig = HS256(secret, SigningInput(token))
    /\ ~(now > token.exp * TicksPerSec)
    /\ ~(now < token.iat * TicksPerSec)
    /\ token.iss = issuer

\* JWT::GetUsername
GetUsername(token) == IF CanDecode(token) THEN token.sub ELSE ""

\* JWT::GetIssuer
GetIssuer(token) == IF CanDecode(token) THEN token.iss ELSE ""

-----------------------------------------------------------------------------
(* CommandFilehost: the FILEHOST command. *)

ParamLists == {<<>>, <<"info">>, <<"list">>, <<"info", "list">>}

\* HandleLocal, lines 171-177: the account name, null without the service.
AccountNameOf(lookup) == IF lookup.api THEN lookup.name ELSE NoAccount

\* The check of line 179 without its test for an empty name
IsIdentifiedNullOnly(accountname) == accountname # NoAccount

\* HandleLocal, line 179: !(!accountname || accountname->empty())
IsIdentified(accountname) == accountname # NoAccount /\ accountname[1] # ""

AllowedTypes == <<"txt", "pdf", "png", "jpg", "jpeg", "gif", "html", "htm", "css", "js", "svg">>

UploadNotice(url, token) == [k |-> "upload", base |-> url, token |-> token]

InfoNotices ==
    << [k |-> "service", base |-> cfg.public_url],
       [k |-> "max_size", mb |-> MaxFileMB],
       [k |-> "allowed_types", types |-> AllowedTypes] >>

UsageNotices == << [k |-> "unknown_parameter"] >>

\* The reply without the branch for `info`
ReplyInfoAsUsage(parameters, accountname, token) ==
    IF parameters = <<>>
    THEN [ notices |-> << UploadNotice(cfg.public_url, token),
                          [k |-> "already_authenticated"],
                          [k |-> "share", base |-> cfg.public_url],
                          [k |-> "account", name |-> accountname[1]],
                          [k |-> "valid_minutes", minutes |-> cmdTokenExpiry \div 60] >>,
           result |-> "SUCCESS" ]
    ELSE [ notices |-> UsageNotices, result |-> "SUCCESS" ]

\* The reply with the usage error returning CmdResult::FAILURE
ReplyUsageFails(parameters, accountname, token) ==
    IF parameters = <<>>
    THEN [ notices |-> << UploadNotice(cfg.public_url, token),
                          [k |-> "already_authenticated"],
                          [k |-> "share", base |-> cfg.public_url],
                          [k |-> "account", name |-> accountname[1]],
                          [k |-> "valid_minutes", minutes |-> cmdTokenExpiry \div 60] >>,
           result |-> "SUCCESS" ]
    ELSE IF parameters[1] = "info"
    THEN [ notices |-> InfoNotices, result |-> "SUCCESS" ]
    ELSE [ notices |-> UsageNotices, result |-> "FAILURE" ]

\* HandleLocal, lines 190-209: the reply to an identified caller.
Reply(parameters, accountname, token) ==
    IF parameters = <<>>
    THEN [ notices |-> << UploadNotice(cfg.public_url, token),
                          [k |-> "already_authenticated"],
                          [k |-> "share", base |-> cfg.public_url],
                          [k |-> "account", name |-> accountname[1]],
                          [k |-> "valid_minutes", minutes |-> cmdTokenExpiry \div 60] >>,
           result |-> "SUCCESS" ]
    ELSE IF parameters[1] = "info"
    THEN [ notices |-> InfoNotices, result |-> "SUCCESS" ]
    ELSE [ notices |-> UsageNotices, result |-> "SUCCESS" ]

\* HandleLocal, lines 179-183: the reply to a caller who is not identified.
Denial == [ notices |-> << [k |-> "login_required", hint |-> cfg.filehost_auth_msg] >>,
            result |-> "FAILURE" ]

\* The tokens a list of notices carries.
TokensIn(notices) ==
    { notices[i].token : i \in { j \in 1..Len(notices) : notices[j].k = "upload" } }

\* CommandFilehost::HandleLocal
HandleLocal(user, parameters, lookup) ==
    LET accountname == AccountNameOf(lookup)
        expiry == ServerTime + cmdTokenExpiry
        token == Generate(nick[user], cfg.jwt_secret, cfg.jwt_issuer, expiry)
        identified == IsIdentified(accountname)
        r == IF identified THEN Reply(parameters, accountname, token) ELSE Denial
    IN  /\ out' = [ op |-> "FILEHOST", user |-> user, parameters |-> parameters,
                    lookup |-> lookup,
                    generated |-> IF identified THEN token ELSE NoToken,
                    notices |-> r.notices, result |-> r.result,
                    at |-> ServerTime, configured |-> cfg.token_expiry ]
        /\ held' = IF TokensIn(r.notices) = {} THEN held
                    ELSE [ token |-> token, username |-> nick[user],
                           secret |-> cfg.jwt_secret, issuer |-> cfg.jwt_issuer,
                           expiry |-> expiry ]
        /\ UNCHANGED <<now, cfg, cmdTokenExpiry, fhCap, tagCap, verified, providers, tag_stats,
                 notify_channel_ops, hidewhois>>

\* ModuleFileHost::ReadConfig, on load and on every rehash
ReadConfig(c) ==
    /\ cfg' = ConfigOf(c)
    /\ out' = [op |-> "none"]
    /\ UNCHANGED <<now, cmdTokenExpiry, held, fhCap, tagCap, verified, providers, tag_stats,
                 notify_channel_ops, hidewhois>>

-----------------------------------------------------------------------------
(* The environment of the command: the clock, and the holder of a token who *)
(* presents it, or a token made from it, to Verify.                         *)

Tick ==
    /\ now < MaxNow
    /\ now' = now + 1
    /\ out' = [op |-> "none"]
    /\ UNCHANGED <<cfg, cmdTokenExpiry, held, fhCap, tagCap, verified, providers, tag_stats,
                 notify_channel_ops, hidewhois>>

Nicks == { nick[u] : u \in Users }
Issuers == { c.jwt_issuer : c \in ConfFiles }

\* What a holder of token t can present: t itself, t with one bit of the
\* signature flipped, t with one signed field changed, or something that
\* is no token.
Presentable(t) ==
    { [how |-> "asis", token |-> t], [how |-> "garbage", token |-> Malformed] }
    \cup { [how |-> "sigbit",
            token |-> [t EXCEPT !.sig = [flipped |-> b, of |-> t.sig]]] : b \in 1..SigBits }
    \cup { [how |-> "sub", token |-> [t EXCEPT !.sub = s]] : s \in Nicks \ {t.sub} }
    \cup { [how |-> "iss", token |-> [t EXCEPT !.iss = i]] : i \in Issuers \ {t.iss} }
    \cup { [how |-> "iat", token |-> [t EXCEPT !.iat = t.iat + 1]],
           [how |-> "exp", token |-> [t EXCEPT !.exp = t.exp + 1]] }

HeldPresentable == IF held = NoToken THEN {} ELSE Presentable(held.token)

\* A verifier configured with the secret and issuer of file c checks a
\* presented token: JWT::Verify, then JWT::GetUsername.
VerifyToken(p, c) ==
    /\ held # NoToken
    /\ p \in Presentable(held.token)
    /\ out' = [ op |-> "VERIFY", how |-> p.how, token |-> p.token, original |-> held,
                secret |-> c.jwt_secret, issuer |-> c.jwt_issuer, at |-> now,
                valid |-> Verify(p.token, c.jwt_secret, c.jwt_issuer),
                originalValid |-> Verify(held.token, c.jwt_secret, c.jwt_issuer),
                subject |-> GetUsername(p.token) ]
    /\ UNCHANGED <<now, cfg, cmdTokenExpiry, held, fhCap, tagCap, verified, providers, tag_stats,
                 notify_channel_ops, hidewhois>>

\* The holder presents the held token, unchanged, to a verifier configured
\* with the secret and issuer of file c.  The first verification that
\* accepts is remembered, with that verifier's secret and issuer.
VerifyHeld(c) ==
    LET valid == Verify(held.token, c.jwt_secret, c.jwt_issuer)
    IN  /\ held # NoToken
        /\ out' = [ op |-> "VERIFY_HELD", token |-> held.token,
                    secret |-> c.jwt_secret, issuer |-> c.jwt_issuer, at |-> now,
                    valid |-> valid ]
        /\ verified' = IF valid /\ verified = NoVerdict
                        THEN [ token |-> held.token, secret |-> c.jwt_secret,
                               issuer |-> c.jwt_issuer, at |-> now ]
                        ELSE verified
        /\ UNCHANGED <<now, cfg, cmdTokenExpiry, held, fhCap, tagCap, providers, tag_stats,
                 notify_channel_ops, hidewhois>>

\* The token accepted before is presented again to the same verifier.
VerifyAgain ==
    /\ verified # NoVerdict
    /\ out' = [ op |-> "VERIFY_AGAIN", token |-> verified.token,
                secret |-> verified.secret, issuer |-> verified.issuer,
                first |-> verified.at, at |-> now,
                valid |-> Verify(verified.token, verified.secret, verified.issuer) ]
    /\ UNCHANGED <<now, cfg, cmdTokenExpiry, held, fhCap, tagCap, verified, providers, tag_stats,
                 notify_channel_ops, hidewhois>>

-----------------------------------------------------------------------------
(* ircv3_kiwiirctags.cpp: the KiwiIRC tag providers and the usage record   *)
(* kept for each user.                                                     *)

\* Operators, and the operators whose class grants the "admin" privilege.
Opers == {"u1", "u2"}
Admins == {"u1"}
IsOper(user) == user \in Opers
HasPrivPermission(user, priv) == user \in Opers /\ priv = "admin" /\ user \in Admins

file_uploader_tag == "+kiwiirc.com/fileuploader"
conference_tag == "+kiwiirc.com/conference"
tictactoe_old_tag == "+data"
tictactoe_tag == "+kiwiirc.com/ttt"

Providers ==
    {"file_uploader_provider", "conference_provider", "tictactoe_old_provider", "tictactoe_provider"}

\* KiwiIRCTagProvider::tagname of each provider
TagnameOf(p) ==
    CASE p = "file_uploader_provider" -> file_uploader_tag
      [] p = "conference_provider" -> conference_tag
      [] p = "tictactoe_old_provider" -> tictactoe_old_tag
      [] p = "tictactoe_provider" -> tictactoe_tag

\* The providers as the module's constructor makes them
Constructed == [p \in Providers |-> [enabled |-> TRUE, restriction |-> ""]]

\* <kiwiirctags> tags of the configuration file; an unset key has its default
KiwiConfFiles ==
    { [enablefileupload |-> TRUE, enableconference |-> TRUE, enabletictactoe |-> TRUE,
       restrictuploadto |-> "", restrictconferenceto |-> "", restricttictactoeto |-> "",
       notifychannelops |-> FALSE],
      [enablefileupload |-> FALSE, enableconference |-> TRUE, enabletictactoe |-> TRUE,
       restrictuploadto |-> "oper", restrictconferenceto |-> "oper", restricttictactoeto |-> "admin",
       notifychannelops |-> TRUE],
      [enablefileupload |-> TRUE, enableconference |-> TRUE, enabletictactoe |-> FALSE,
       restrictuploadto |-> "admin", restrictconferenceto |-> "voice", restricttictactoeto |-> "oper",
       notifychannelops |-> FALSE] }

\* ModuleKiwiIRCTags::ReadConfig, the part that sets the providers and
\* notify_channel_ops
KiwiReadConfig(k) ==
    /\ providers' =
         [p \in Providers |->
            CASE p = "file_uploader_provider" ->
                   [enabled |-> k.enablefileupload, restriction |-> k.restrictuploadto]
              [] p = "conference_provider" ->
                   [enabled |-> k.enableconference, restriction |-> k.restrictconferenceto]
              [] OTHER ->
                   [enabled |-> k.enabletictactoe, restriction |-> k.restricttictactoeto]]
    /\ notify_channel_ops' = k.notifychannelops
    /\ out' = [op |-> "none"]
    /\ UNCHANGED <<now, cfg, cmdTokenExpiry, held, fhCap, tagCap, verified, tag_stats, hidewhois>>

\* GetRaw returning null: the user has no record
NoStats == [none |-> TRUE]

\* TagStats, as its default member initializers leave it
NewStats == [fileupload_count |-> 0, conference_count |-> 0, tictactoe_count |-> 0,
             first_seen |-> 0, last_seen |-> 0]

\* TagUsageExtItem::Get: the store after the call; the record is stats[user]
Get(stats, user) ==
    IF stats[user] = NoStats
    THEN [stats EXCEPT ![user] = [NewStats EXCEPT !.first_seen = ServerTime]]
    ELSE stats

\* UpdateStats counting the tag under every counter
UpdateStatsAllCounters(stats, user, tagname) ==
    LET got == Get(stats, user)
    IN  [got EXCEPT ![user] = [@ EXCEPT !.last_seen = ServerTime,
                                        !.fileupload_count = @ + 1,
                                        !.conference_count = @ + 1,
                                        !.tictactoe_count = @ + 1]]

\* TagUsageExtItem::UpdateStats: the store after the call
UpdateStats(stats, user, tagname) ==
    LET got == Get(stats, user)
        seen == [got EXCEPT ![user].last_seen = ServerTime]
    IN  IF tagname = "+kiwiirc.com/fileuploader"
        THEN [seen EXCEPT ![user].fileupload_count = @ + 1]
        ELSE IF tagname = "+kiwiirc.com/conference"
        THEN [seen EXCEPT ![user].conference_count = @ + 1]
        ELSE IF tagname = "+data" \/ tagname = "+kiwiirc.com/ttt"
        THEN [seen EXCEPT ![user].tictactoe_count = @ + 1]
        ELSE seen

\* OnProcessTag of a provider that, when disabled, refuses every tag
KiwiResultDisabledDeniesAll(p, user, name) ==
    IF ~providers[p].enabled THEN "MOD_RES_DENY"
    ELSE IF name = TagnameOf(p)
    THEN IF providers[p].restriction = "oper" /\ ~IsOper(user) THEN "MOD_RES_DENY"
         ELSE IF providers[p].restriction = "admin"
                 /\ (~IsOper(user) \/ ~HasPrivPermission(user, "admin")) THEN "MOD_RES_DENY"
         ELSE "MOD_RES_ALLOW"
    ELSE "MOD_RES_PASSTHRU"

\* KiwiIRCTagProvider::OnProcessTag: what it returns
KiwiResult(p, user, name) ==
    IF name = TagnameOf(p)
    THEN IF ~providers[p].enabled THEN "MOD_RES_DENY"
         ELSE IF providers[p].restriction # ""
                 /\ providers[p].restriction = "oper" /\ ~IsOper(user) THEN "MOD_RES_DENY"
         ELSE IF providers[p].restriction # ""
                 /\ providers[p].restriction = "admin"
                 /\ (~IsOper(user) \/ ~HasPrivPermission(user, "admin")) THEN "MOD_RES_DENY"
         ELSE "MOD_RES_ALLOW"
    ELSE "MOD_RES_PASSTHRU"

RECURSIVE Counted(_, _)
\* The tags counted in the records of the users in S
Counted(stats, S) ==
    IF S = {} THEN 0
    ELSE LET u == CHOOSE x \in S : TRUE
             c == IF stats[u] = NoStats THEN 0
                  ELSE stats[u].fileupload_count + stats[u].conference_count
                       + stats[u].tictactoe_count
         IN  c + Counted(stats, S \ {u})

\* The tag names put to the handlers
AllTagNames ==
    { file_uploader_tag, conference_tag, tictactoe_old_tag, tictactoe_tag,
      "+typing", "+draft/typing", "reverse.im/filehost" }

\* KiwiIRCTagProvider::OnProcessTag of provider p, called for a tag `name`
\* of a message of `user`
KiwiProcessTag(p, user, name) ==
    LET result == KiwiResult(p, user, name)
    IN  /\ result = "MOD_RES_ALLOW" => Counted(tag_stats, Users) < MaxCount
        /\ tag_stats' = IF result = "MOD_RES_ALLOW"
                        THEN UpdateStats(tag_stats, user, name)
                        ELSE tag_stats
        /\ out' = [ op |-> "KIWITAG", provider |-> p, user |-> user, name |-> name,
                    result |-> result, at |-> ServerTime, before |-> tag_stats,
                    enabled |-> providers[p].enabled,
                    restriction |-> providers[p].restriction ]
        /\ UNCHANGED <<now, cfg, cmdTokenExpiry, held, fhCap, tagCap, verified, providers,
                 notify_channel_ops, hidewhois>>

\* Get called for every user in S, as the loops of OnStats and OnOperRejoin do
GetAll(stats, S) == [u \in Users |-> IF u \in S THEN Get(stats, u)[u] ELSE stats[u]]

\* The test both loops make of a record
Active(r) == r.fileupload_count # 0 \/ r.conference_count # 0 \/ r.tictactoe_count # 0

RECURSIVE Total(_, _, _)
\* The sum of counter c over the records of the users in S
Total(stats, S, c) ==
    IF S = {} THEN 0
    ELSE LET u == CHOOSE x \in S : TRUE
         IN  stats[u][c] + Total(stats, S \ {u}, c)

StatsSymbols == {"K", "u"}

\* ModuleKiwiIRCTags::OnStats
OnStats(symbol) ==
    LET got == GetAll(tag_stats, LocalUsers)
        active == { u \in LocalUsers : Active(got[u]) }
    IN  /\ tag_stats' = IF symbol = "K" THEN got ELSE tag_stats
        /\ out' = IF symbol = "K"
                  THEN [ op |-> "STATS", symbol |-> symbol, handled |-> TRUE,
                         file_upload |-> providers["file_uploader_provider"].enabled,
                         conference |-> providers["conference_provider"].enabled,
                         tictactoe |-> providers["tictactoe_provider"].enabled,
                         rows |-> { [nick |-> nick[u], stats |-> got[u]] : u \in active },
                         total_users |-> Cardinality(active),
                         total_uploads |-> Total(got, active, "fileupload_count"),
                         total_conferences |-> Total(got, active, "conference_count"),
                         total_games |-> Total(got, active, "tictactoe_count"),
                         before |-> tag_stats ]
                  ELSE [ op |-> "STATS", symbol |-> symbol, handled |-> FALSE,
                         before |-> tag_stats ]
        /\ UNCHANGED <<now, cfg, cmdTokenExpiry, held, fhCap, tagCap, verified, providers,
                       notify_channel_ops, hidewhois>>

\* The member lists of the channels an operator rejoins
Channels == { Users, {"u1", "r1"} }

\* ModuleKiwiIRCTags::OnOperRejoin
OnOperRejoin(user, members) ==
    LET got == GetAll(tag_stats, members)
        user_count == Cardinality({ m \in members : Active(got[m]) })
    IN  /\ tag_stats' = IF notify_channel_ops THEN got ELSE tag_stats
        /\ out' = [ op |-> "REJOIN", user |-> user, members |-> members,
                    notices |-> IF notify_channel_ops /\ user_count > 0
                                THEN << [k |-> "usage_summary", user_count |-> user_count] >>
                                ELSE <<>>,
                    before |-> tag_stats ]
        /\ UNCHANGED <<now, cfg, cmdTokenExpiry, held, fhCap, tagCap, verified, providers,
                       notify_channel_ops, hidewhois>>

-----------------------------------------------------------------------------
(* m_hidewhois.cpp, ModuleIRCv3Typing: the typing-tag handler. *)

TypingValues == {"active", "x"}

\* ModuleIRCv3Typing::ValidateTypingValue
ValidateTypingValue(tagval) == tagval = "active" \/ tagval = "paused" \/ tagval = "done"

\* ModuleIRCv3Typing::OnProcessTag: what it returns
TypingResult(user, tagname, tagvalue) ==
    IF (tagname = "+typing" \/ tagname = "+draft/typing") /\ ~ValidateTypingValue(tagvalue)
    THEN "MOD_RES_DENY"
    ELSE "MOD_RES_PASSTHRU"

\* ModuleIRCv3Typing::OnProcessTag
TypingProcessTag(user, tagname, tagvalue) ==
    /\ out' = [ op |-> "TYPINGTAG", user |-> user, name |-> tagname, value |-> tagvalue,
                result |-> TypingResult(user, tagname, tagvalue), before |-> tag_stats ]
    /\ UNCHANGED <<now, cfg, cmdTokenExpiry, held, fhCap, tagCap, verified, providers, tag_stats,
                 notify_channel_ops, hidewhois>>

-----------------------------------------------------------------------------
(* m_hidewhois.cpp, ModuleHideWhois: the filter of WHOIS lines. *)

RPL_AWAY == 301
RPL_WHOISUSER == 311
RPL_WHOISSERVER == 312
RPL_WHOISIDLE == 317
RPL_ENDOFWHOIS == 318
RPL_WHOISCOUNTRY == 344
RPL_WHOISGATEWAY == 350
RPL_WHOISSECURE == 671

\* RPL_WHOISOPERATOR, RPL_WHOISCHANNELS, RPL_WHOISACCOUNT: lines of a WHOIS
\* reply that the filter has no case for
OtherNumerics == {313, 319, 330}

Numerics ==
    { RPL_AWAY, RPL_WHOISUSER, RPL_WHOISSERVER, RPL_WHOISIDLE, RPL_ENDOFWHOIS,
      RPL_WHOISCOUNTRY, RPL_WHOISGATEWAY, RPL_WHOISSECURE } \cup OtherNumerics

HideWhoisKeys ==
    {"opers", "selfview", "hide_server", "hide_idle", "hide_away", "hide_geolocation",
     "hide_secure"}

\* A <hidewhois> tag, told by the keys it sets to "no"; getBool gives true
\* for every other key
HideWhoisTags == SUBSET HideWhoisKeys

\* The members as ReadConfig sets them from a tag
HideWhoisOf(off) ==
    [ allow_opers |-> "opers" \notin off,
      allow_selfview |-> "selfview" \notin off,
      hide_server |-> "hide_server" \notin off,
      hide_idle |-> "hide_idle" \notin off,
      hide_away |-> "hide_away" \notin off,
      hide_geolocation |-> "hide_geolocation" \notin off,
      hide_secure |-> "hide_secure" \notin off ]

\* ModuleHideWhois::ReadConfig
HideWhoisReadConfig(off) ==
    /\ hidewhois' = HideWhoisOf(off)
    /\ out' = [op |-> "none"]
    /\ UNCHANGED <<now, cfg, cmdTokenExpiry, held, fhCap, tagCap, verified, providers,
                   tag_stats, notify_channel_ops>>

\* ShouldHideFrom without the case of a user looking at themselves
ShouldHideFromNoSelfview(source, target) ==
    IF ~IS_LOCAL(target) THEN FALSE
    ELSE IF IsOper(source) /\ hidewhois.allow_opers THEN FALSE
    ELSE TRUE

\* ModuleHideWhois::ShouldHideFrom
ShouldHideFrom(source, target) ==
    IF ~IS_LOCAL(target) THEN FALSE
    ELSE IF IsOper(source) /\ hidewhois.allow_opers THEN FALSE
    ELSE IF source = target /\ hidewhois.allow_selfview THEN FALSE
    ELSE TRUE

\* ModuleHideWhois::OnWhoisLine: what it returns
WhoisLineResult(source, target, numeric) ==
    IF ~ShouldHideFrom(source, target) THEN "MOD_RES_PASSTHRU"
    ELSE CASE numeric = RPL_WHOISUSER -> "MOD_RES_PASSTHRU"
           [] numeric = RPL_ENDOFWHOIS -> "MOD_RES_PASSTHRU"
           [] numeric = RPL_WHOISSERVER ->
                IF hidewhois.hide_server THEN "MOD_RES_DENY" ELSE "MOD_RES_PASSTHRU"
           [] numeric = RPL_WHOISIDLE ->
                IF hidewhois.hide_idle THEN "MOD_RES_DENY" ELSE "MOD_RES_PASSTHRU"
           [] numeric = RPL_AWAY ->
                IF hidewhois.hide_away THEN "MOD_RES_DENY" ELSE "MOD_RES_PASSTHRU"
           [] numeric \in {RPL_WHOISCOUNTRY, RPL_WHOISGATEWAY} ->
                IF hidewhois.hide_geolocation THEN "MOD_RES_DENY" ELSE "MOD_RES_PASSTHRU"
           [] numeric = RPL_WHOISSECURE ->
                IF hidewhois.hide_secure THEN "MOD_RES_DENY" ELSE "MOD_RES_PASSTHRU"
           [] OTHER -> "MOD_RES_PASSTHRU"

\* ModuleHideWhois::OnWhoisLine, for a line of the reply to a WHOIS of
\* `target` asked by `source`
OnWhoisLine(source, target, numeric) ==
    /\ out' = [ op |-> "WHOIS", source |-> source, target |-> target,
                numeric |-> numeric,
                result |-> WhoisLineResult(source, target, numeric) ]
    /\ UNCHANGED <<now, cfg, cmdTokenExpiry, held, fhCap, tagCap, verified, providers,
                   tag_stats, notify_channel_ops, hidewhois>>

-----------------------------------------------------------------------------
(* The command and the token service. *)

Init ==
    /\ now = 0
    /\ cfg \in { ConfigOf(c) : c \in ConfFiles }
    /\ cmdTokenExpiry \in UninitExpiry
    /\ held = NoToken
    /\ fhCap = {}
    /\ tagCap = {}
    /\ verified = NoVerdict
    /\ providers = Constructed
    /\ tag_stats = [u \in Users |-> NoStats]
    /\ notify_channel_ops = FALSE
    /\ hidewhois = HideWhoisOf({})
    /\ out = [op |-> "none"]

Next ==
    \/ \E c \in ConfFiles : ReadConfig(c)
    \/ \E u \in LocalUsers, ps \in ParamLists, l \in Lookups : HandleLocal(u, ps, l)
    \/ Tick
    \/ \E c \in ConfFiles, p \in HeldPresentable : VerifyToken(p, c)

Spec == Init /\ [][Next]_vars

-----------------------------------------------------------------------------
(* std::string, as far as the tagger uses it.  Positions count from 0.      *)

npos == -1

SetMin(S) == CHOOSE x \in S : \A y \in S : x <= y
SetMax(S) == CHOOSE x \in S : \A y \in S : x >= y

\* s.find(pat, from)
find(s, pat, from) ==
    LET hits == { i \in from..(Len(s) - Len(pat)) : SubSeq(s, i + 1, i + Len(pat)) = pat }
    IN  IF hits = {} THEN npos ELSE SetMin(hits)

\* s.find_first_of(chars, from)
find_first_of(s, chars, from) ==
    LET hits == { i \in from..(Len(s) - 1) : s[i + 1] \in chars }
    IN  IF hits = {} THEN npos ELSE SetMin(hits)

\* s.rfind(ch)
rfind(s, ch) ==
    LET hits == { i \in 0..(Len(s) - 1) : s[i + 1] = ch }
    IN  IF hits = {} THEN npos ELSE SetMax(hits)

\* s.substr(pos, n) and s.substr(pos)
substr(s, pos, n) == SubSeq(s, pos + 1, IF pos + n > Len(s) THEN Len(s) ELSE pos + n)
substrFrom(s, pos) == SubSeq(s, pos + 1, Len(s))

UpperCase == <<"A", "B", "C", "D", "E", "F", "G", "H", "I", "J", "K", "L", "M", "N", "O", "P", "Q", "R", "S", "T", "U", "V", "W", "X", "Y", "Z">>
LowerCase == <<"a", "b", "c", "d", "e", "f", "g", "h", "i", "j", "k", "l", "m", "n", "o", "p", "q", "r", "s", "t", "u", "v", "w", "x", "y", "z">>

\* ::tolower on one character, and std::transform over a string
UpperSet == { UpperCase[i] : i \in 1..Len(UpperCase) }
LowerOf == [ c \in UpperSet |-> LowerCase[CHOOSE i \in 1..Len(UpperCase) : UpperCase[i] = c] ]
tolower(ch) == IF ch \in UpperSet THEN LowerOf[ch] ELSE ch
ToLowerStr(s) == [i \in 1..Len(s) |-> tolower(s[i])]

-----------------------------------------------------------------------------
(* FileHostTag: the provider of the reverse.im/filehost tag. *)

FilehostTagName == "reverse.im/filehost"
TagNames == {FilehostTagName, "+typing", "+kiwiirc.com/fileupload"}

\* OnProcessTag with the test of IS_LOCAL inverted
OnProcessTagLocalAllowed(user, tagname) ==
    IF tagname # FilehostTagName THEN "MOD_RES_PASSTHRU"
    ELSE IF IS_LOCAL(user) THEN "MOD_RES_ALLOW"
    ELSE "MOD_RES_DENY"

\* FileHostTag::OnProcessTag
FileHostTag_OnProcessTag(user, tagname) ==
    IF tagname # FilehostTagName THEN "MOD_RES_PASSTHRU"
    ELSE IF IS_LOCAL(user) THEN "MOD_RES_DENY"
    ELSE "MOD_RES_ALLOW"

\* ShouldSendTag asking the message-tags capability instead
ShouldSendTagByTagCap(user) == user \in tagCap

\* FileHostTag::ShouldSendTag: cap is the module's own capability,
\* reverse.im/filehost.
FileHostTag_ShouldSendTag(user) == user \in fhCap

-----------------------------------------------------------------------------
(* ModuleFileHost: the tagger of outbound messages. *)

\* Local users whose connection has an I/O hook (TLS).
SecureUsers == {"u1"}
GetIOHook(user) == user \in SecureUsers

FilesDir == <<"/", "f", "i", "l", "e", "s", "/">>
Whitespace == {" ", "\r", "\n"}
Punctuation == {",", ".", ";", ":", "!", "?", "'", "\"", "(", ")", "[", "]", "{", "}"}

FilesPrefix == cfg.public_url \o FilesDir

\* The TLS check asking no IS_LOCAL: every user without a local I/O hook
SslDeniedRemoteToo(user, text) ==
    /\ cfg.require_ssl
    /\ ~GetIOHook(user)
    /\ find(text, cfg.public_url, 0) # npos

\* OnUserPreMessage, lines 384-394: the message is refused
SslDenied(user, text) ==
    /\ cfg.require_ssl
    /\ IS_LOCAL(user)
    /\ ~GetIOHook(user)
    /\ find(text, cfg.public_url, 0) # npos

\* The search looking for the public URL alone, as the TLS check does
UrlStartPublicUrl(text) == find(text, cfg.public_url, 0)

\* OnUserPreMessage, line 404: start_pos
UrlStart(text) == find(text, FilesPrefix, 0)

\* OnUserPreMessage, lines 402-406
HasUrl(text) == UrlStart(text) # npos

RECURSIVE StripPunctuation(_)
\* OnUserPreMessage, lines 418-422
StripPunctuation(url) ==
    IF url # <<>> /\ url[Len(url)] \in Punctuation
    THEN StripPunctuation(SubSeq(url, 1, Len(url) - 1))
    ELSE url

\* OnUserPreMessage, lines 411-422: the URL found in a text that has one
ExtractUrl(text) ==
    LET start_pos == UrlStart(text)
        found == find_first_of(text, Whitespace, start_pos)
        end_pos == IF found = npos THEN Len(text) ELSE found
    IN  StripPunctuation(substr(text, start_pos, end_pos - start_pos))

\* OnUserPreMessage, lines 425-429
MessageFilename(url) ==
    IF find(url, FilesPrefix, 0) # npos THEN substrFrom(url, Len(FilesPrefix)) ELSE <<>>

Quoted(s) == <<"\"">> \o s \o <<"\"">>
JsonUrl == <<"\"", "u", "r", "l", "\"", ":">>
JsonFilename == <<",", "\"", "f", "i", "l", "e", "n", "a", "m", "e", "\"", ":">>
JsonType == <<",", "\"", "t", "y", "p", "e", "\"", ":">>

\* OnUserPreMessage, lines 440-459: the type the message's own metadata
\* names, <<>> when it names none
MessageType(filename) ==
    LET dot_pos == rfind(filename, ".")
        ext == IF dot_pos = npos THEN <<>> ELSE ToLowerStr(substrFrom(filename, dot_pos + 1))
    IN  IF dot_pos = npos THEN <<>>
        ELSE IF ext \in {<<"p", "n", "g">>, <<"j", "p", "g">>, <<"j", "p", "e", "g">>, <<"g", "i", "f">>, <<"s", "v", "g">>}
        THEN <<"i", "m", "a", "g", "e">>
        ELSE IF ext \in {<<"t", "x", "t">>, <<"m", "d">>, <<"h", "t", "m", "l">>, <<"h", "t", "m">>}
        THEN <<"t", "e", "x", "t">>
        ELSE IF ext \in {<<"p", "d", "f">>, <<"d", "o", "c">>, <<"d", "o", "c", "x">>}
        THEN <<"d", "o", "c", "u", "m", "e", "n", "t">>
        ELSE <<>>

\* OnUserPreMessage, lines 432-464: the metadata attached to the message
MessageMetadata(url) ==
    LET filename == MessageFilename(url)
        type == MessageType(filename)
    IN  <<"{">> \o JsonUrl \o Quoted(url)
        \o (IF filename = <<>> THEN <<>>
            ELSE JsonFilename \o Quoted(filename)
                 \o (IF type = <<>> THEN <<>> ELSE JsonType \o Quoted(type)))
        \o <<"}">>

\* ModuleFileHost::GetFileTypeFromExtension
GetFileTypeFromExtension(filename) ==
    LET dot_pos == rfind(filename, ".")
        ext == IF dot_pos = npos THEN <<>> ELSE ToLowerStr(substrFrom(filename, dot_pos + 1))
    IN  IF ext = <<>> THEN "FILE_UNKNOWN"
        ELSE IF ext \in {<<"p", "n", "g">>, <<"j", "p", "g">>, <<"j", "p", "e", "g">>, <<"g", "i", "f">>, <<"s", "v", "g">>}
        THEN "FILE_IMAGE"
        ELSE IF ext \in {<<"t", "x", "t">>, <<"h", "t", "m", "l">>, <<"h", "t", "m">>, <<"c", "s", "s">>, <<"j", "s">>}
        THEN "FILE_TEXT"
        ELSE IF ext \in {<<"p", "d", "f">>, <<"d", "o", "c">>, <<"d", "o", "c", "x">>}
        THEN "FILE_DOCUMENT"
        ELSE IF ext \in {<<"z", "i", "p">>, <<"t", "a", "r">>, <<"g", "z">>, <<"r", "a", "r">>}
        THEN "FILE_ARCHIVE"
        ELSE "FILE_BINARY"

\* ModuleFileHost::GetFilenameFromURL
GetFilenameFromURL(url) ==
    IF find(url, FilesPrefix, 0) # 0 THEN <<>>
    ELSE LET filename == substrFrom(url, Len(FilesPrefix))
             qmark == find(filename, <<"?">>, 0)
         IN  IF qmark # npos THEN substr(filename, 0, qmark) ELSE filename

\* AddFileMetadataTags, lines 291-310
TypeName(type) ==
    CASE type = "FILE_IMAGE" -> <<"i", "m", "a", "g", "e">>
      [] type = "FILE_TEXT" -> <<"t", "e", "x", "t">>
      [] type = "FILE_DOCUMENT" -> <<"d", "o", "c", "u", "m", "e", "n", "t">>
      [] type = "FILE_ARCHIVE" -> <<"a", "r", "c", "h", "i", "v", "e">>
      [] type = "FILE_BINARY" -> <<"b", "i", "n", "a", "r", "y">>
      [] OTHER -> <<"u", "n", "k", "n", "o", "w", "n">>

NoTags == {}

\* ModuleFileHost::AddFileMetadataTags, on an empty tag map: the tags of
\* the tag-only message
AddFileMetadataTags(url) ==
    LET filename == GetFilenameFromURL(url)
        type == GetFileTypeFromExtension(filename)
    IN  IF filename = <<>> THEN NoTags
        ELSE { [ name |-> FilehostTagName,
                 value |-> <<"{">> \o JsonUrl \o Quoted(url) \o JsonFilename \o Quoted(filename)
                           \o JsonType \o Quoted(TypeName(type)) \o <<"}">> ] }

\* SendTagMsg, lines 328-333: who is sent the tag-only message
SendTagMsgTo == { u \in LocalUsers : u \in tagCap }

\* The filehost tag a local user is shown of a message carrying `tags`: the
\* serializer asks the tag's provider, ShouldSendTag, for every tag.
ShownTo(user, tags) ==
    { t \in tags : t.name = FilehostTagName /\ FileHostTag_ShouldSendTag(user) }

Texts ==
    { <<"h", "i">>,
      <<"w", " ", "i", "s", " ", "u", "p">>,
      <<"s", "e", "e", " ", "w", "/", "f", "i", "l", "e", "s", "/", "a", ".", "P", "N", "G", " ", "n", "o", "w">>,
      <<"w", "/", "f", "i", "l", "e", "s", "/", "b", ".", "m", "d", "?", "x", "=", "1", ".">>,
      <<"w", "/", "f", "i", "l", "e", "s", "/">>,
      <<"w", "/", "f", "i", "l", "e", "s", "/", "c">>,
      <<"w", "/", "f", "i", "l", "e", "s", "/", "d", ".", "z", "i", "p", "\t", "x">>,
      <<"v", "/", "f", "i", "l", "e", "s", "/", "a", ".", "j", "s", "!", ")">>,
      <<"w", "/", "f", "i", "l", "e", "s", "/", "x", "/", "f", "i", "l", "e", "s", "/", "e", ".", "c", "s", "s">>,
      <<"w", "/", "f", "i", "l", "e", "s", "/", "f", ".", "b", "i", "n">> }

\* Who a message of `user` can go to: one other user, or a channel that
\* all the others are in.
Targets(user) == { {v} : v \in Users \ {user} } \cup { Users \ {user} }

\* ModuleFileHost::OnUserPreMessage, with what follows from its result: a
\* message that is not denied goes to the local users among its recipients.
\* tags_out is empty when the handler is entered.
OnUserPreMessage(user, rcpts, text) ==
    LET denied == SslDenied(user, text)
        tagged == ~denied /\ HasUrl(text)
        url == IF tagged THEN ExtractUrl(text) ELSE <<>>
        tags_out == IF tagged
                    THEN { [name |-> FilehostTagName, value |-> MessageMetadata(url)] }
                    ELSE NoTags
        tagmsg == IF tagged THEN AddFileMetadataTags(url) ELSE NoTags
        msgTo == IF denied THEN {} ELSE rcpts \cap LocalUsers
        tagmsgTo == IF tagged THEN SendTagMsgTo ELSE {}
    IN  /\ out' = [ op |-> "PRIVMSG", user |-> user, text |-> text, rcpts |-> rcpts,
                    result |-> IF denied THEN "MOD_RES_DENY" ELSE "MOD_RES_PASSTHRU",
                    notices |-> IF denied THEN << [k |-> "ssl_required"] >> ELSE <<>>,
                    url |-> url,
                    filename |-> MessageFilename(url),
                    type |-> MessageType(MessageFilename(url)),
                    tags_out |-> tags_out,
                    tagmsg |-> tagmsg,
                    msgTo |-> msgTo,
                    tagmsgTo |-> tagmsgTo,
                    msgShown |-> [u \in msgTo |-> ShownTo(u, tags_out)],
                    tagmsgShown |-> [u \in tagmsgTo |-> ShownTo(u, tagmsg)] ]
        /\ UNCHANGED <<now, cfg, cmdTokenExpiry, held, fhCap, tagCap, verified, providers, tag_stats,
                 notify_channel_ops, hidewhois>>

\* A tag of an incoming message is put to the provider: a tag of a client's
\* message with that client as the user, a tag of a message from another
\* server with the remote user it comes from.
ProcessTag(user, tagname) ==
    /\ out' = [ op |-> "TAG", user |-> user, tagname |-> tagname,
                result |-> FileHostTag_OnProcessTag(user, tagname), before |-> tag_stats ]
    /\ UNCHANGED <<now, cfg, cmdTokenExpiry, held, fhCap, tagCap, verified, providers, tag_stats,
                 notify_channel_ops, hidewhois>>

Toggled(S, user) == IF user \in S THEN S \ {user} ELSE S \cup {user}

\* A local user enables or disables a capability (CAP REQ).
CapChange(user, cap) ==
    /\ \/ cap = FilehostTagName
          /\ fhCap' = Toggled(fhCap, user)
          /\ UNCHANGED tagCap
       \/ cap = "message-tags"
          /\ tagCap' = Toggled(tagCap, user)
          /\ UNCHANGED fhCap
    /\ out' = [op |-> "none"]
    /\ UNCHANGED <<now, cfg, cmdTokenExpiry, held, verified, providers, tag_stats,
                 notify_channel_ops, hidewhois>>

NextTag ==
    \/ \E c \in ConfFiles : ReadConfig(c)
    \/ \E u \in LocalUsers, cap \in {FilehostTagName, "message-tags"} : CapChange(u, cap)
    \/ \E u \in Users, t \in TagNames : ProcessTag(u, t)
    \/ \E u \in Users, x \in Texts :
          \E r \in Targets(u) : OnUserPreMessage(u, r, x)

SpecTag == Init /\ [][NextTag]_vars

-----------------------------------------------------------------------------
(* A token through a session of the server: commands, rehashes and         *)
(* outbound messages go on between the verifications of a token.           *)

SessionParams == {<<>>, <<"info">>}
SessionLookups == { [api |-> TRUE, name |-> <<"alice">>], [api |-> TRUE, name |-> NoAccount] }
SessionTexts == { <<"h", "i">>, <<"w", "/", "f", "i", "l", "e", "s", "/", "c">> }

NextSession ==
    \/ \E c \in ConfFiles : ReadConfig(c)
    \/ \E u \in LocalUsers, ps \in SessionParams, l \in SessionLookups : HandleLocal(u, ps, l)
    \/ Tick
    \/ \E u \in Users, x \in SessionTexts : OnUserPreMessage(u, Users \ {u}, x)
    \/ \E c \in ConfFiles : VerifyHeld(c)
    \/ VerifyAgain

SpecSession == Init /\ [][NextSession]_vars

-----------------------------------------------------------------------------
(* The tag handlers of the three modules, each called for the tags of      *)
(* incoming messages.                                                      *)

NextHandlers ==
    \/ \E k \in KiwiConfFiles : KiwiReadConfig(k)
    \/ Tick
    \/ \E p \in Providers, u \in Users, t \in AllTagNames : KiwiProcessTag(p, u, t)
    \/ \E u \in Users, t \in AllTagNames, v \in TypingValues : TypingProcessTag(u, t, v)
    \/ \E u \in Users, t \in AllTagNames : ProcessTag(u, t)

\* No tag handler reads the configuration of the filehost module or the
\* expiry held by its command: the handlers are followed from one of the
\* initial states.
InitHandlers == Init /\ cfg.jwt_secret = "s2" /\ cmdTokenExpiry = 0

SpecHandlers == InitHandlers /\ [][NextHandlers]_vars

-----------------------------------------------------------------------------
(* The usage records of the KiwiIRC module: tags, the K stats report and   *)
(* the operator-rejoin summary.                                            *)

NextStats ==
    \/ \E k \in KiwiConfFiles : KiwiReadConfig(k)
    \/ Tick
    \/ \E p \in Providers, u \in Users : KiwiProcessTag(p, u, TagnameOf(p))
    \/ \E y \in StatsSymbols : OnStats(y)
    \/ \E members \in Channels : \E u \in members : OnOperRejoin(u, members)

SpecStats == InitHandlers /\ [][NextStats]_vars

-----------------------------------------------------------------------------
(* The WHOIS filter: rehashes of <hidewhois> and the lines of WHOIS replies. *)

NextWhois ==
    \/ \E off \in HideWhoisTags : HideWhoisReadConfig(off)
    \/ \E source \in Users, target \in Users, numeric \in Numerics :
          OnWhoisLine(source, target, numeric)

SpecWhois == InitHandlers /\ [][NextWhois]_vars

-----------------------------------------------------------------------------
(* Claims about the token service and the FILEHOST command, checked under   *)
(* Spec.                                                                    *)

\* A verification of a token as the command issued it, by a verifier that
\* has the secret and the issuer the token was issued with.
SameKeyVerify ==
    /\ out.op = "VERIFY"
    /\ out.how = "asis"
    /\ out.secret = out.original.secret
    /\ out.issuer = out.original.issuer

\* C1: a token produced by Generate and verified, with the secret and issuer
\* it was issued with, at a time before its expiry is valid, and the subject
\* read back from it is the subject given to Generate.
C1_ValidBeforeExpiry ==
    (SameKeyVerify /\ out.at < out.original.expiry * TicksPerSec)
        => (out.valid /\ out.subject = out.original.username)

\* C1 witness: such a verification took place, later than the issuing second.
C1_Witness ==
    /\ SameKeyVerify
    /\ out.at < out.original.expiry * TicksPerSec
    /\ out.at >= (out.original.token.iat + 1) * TicksPerSec
    /\ out.valid
    /\ out.subject = out.original.username

\* C2 as claimed: at every time now >= expiresAt, the boundary included,
\* Verify returns invalid.
C2_InvalidFromExpiry ==
    (out.op = "VERIFY" /\ CanDecode(out.token) /\ out.at >= out.token.exp * TicksPerSec)
        => ~out.valid

\* C2 as amended: at every time now > expiresAt Verify returns invalid,
\* whether or not the signature is correct.
C2_InvalidAfterExpiry ==
    (out.op = "VERIFY" /\ CanDecode(out.token) /\ out.at > out.token.exp * TicksPerSec)
        => ~out.valid

\* C2 witness: a correctly signed token is refused only because it expired.
C2_Witness ==
    /\ SameKeyVerify
    /\ out.original.expiry > out.original.token.iat
    /\ out.at > out.token.exp * TicksPerSec
    /\ ~out.valid

\* C3: when Verify accepts a token, it rejects that token with a bit of the
\* signature flipped, and that token with a signed field changed under the
\* same signature.
C3_TamperedRejected ==
    (/\ out.op = "VERIFY"
     /\ out.how \in {"sigbit", "sub", "iss", "iat", "exp"}
     /\ out.originalValid)
        => ~out.valid

\* C3 witness: a token with its expiry moved later, made from an accepted
\* token, was rejected by a verifier that accepts the original.
C3_Witness ==
    /\ out.op = "VERIFY"
    /\ out.how = "exp"
    /\ out.originalValid
    /\ out.token.exp > out.original.token.exp
    /\ ~out.valid

\* The account lookup of the last FILEHOST call gave no identity: the
\* service is missing, or the pointer is null, or the name is empty.
NoIdentity ==
    \/ ~out.lookup.api
    \/ out.lookup.name = NoAccount
    \/ out.lookup.name = <<"">>

KindsOf(notices) == [i \in 1..Len(notices) |-> notices[i].k]

\* C4: a FILEHOST call by a caller without identity gets the denial notice
\* with the configured hint, makes no token and sends no upload URL,
\* whatever the arguments.
C4_UnidentifiedDenied ==
    (out.op = "FILEHOST" /\ NoIdentity)
        => /\ out.notices = << [k |-> "login_required", hint |-> cfg.filehost_auth_msg] >>
           /\ out.generated = NoToken
           /\ TokensIn(out.notices) = {}

\* C4 witness: a caller whose account name is empty asked for `info`.
C4_Witness ==
    /\ out.op = "FILEHOST"
    /\ out.lookup.api
    /\ out.lookup.name = <<"">>
    /\ out.parameters = <<"info">>
    /\ KindsOf(out.notices) = <<"login_required">>

\* C5 as claimed: the subject of the token sent by a FILEHOST call without
\* arguments is the account name the lookup resolved.
C5_SubjectIsAccount ==
    (out.op = "FILEHOST" /\ out.parameters = <<>> /\ ~NoIdentity)
        => \A t \in TokensIn(out.notices) : GetUsername(t) = out.lookup.name[1]

\* C6 as claimed: a minted token expires token_expiry seconds after it was
\* issued, token_expiry being the configured value, within [60, 86400], and
\* the reply reports token_expiry / 60 minutes.
C6_ExpiryIsConfigured ==
    (out.op = "FILEHOST" /\ out.generated # NoToken)
        => /\ cfg.token_expiry >= ExpiryMin
           /\ cfg.token_expiry <= ExpiryMax
           /\ out.generated.exp = out.generated.iat + cfg.token_expiry
           /\ \A i \in 1..Len(out.notices) :
                 out.notices[i].k = "valid_minutes"
                     => out.notices[i].minutes = cfg.token_expiry \div 60

\* The static reply of `info`.
IsInfoReply ==
    /\ out.notices = << [k |-> "service", base |-> cfg.public_url],
                        [k |-> "max_size", mb |-> 16],
                        [k |-> "allowed_types", types |-> AllowedTypes] >>
    /\ out.result = "SUCCESS"

IsDenial ==
    /\ KindsOf(out.notices) = <<"login_required">>
    /\ out.result = "FAILURE"

FirstIs(parameters, word) == parameters # <<>> /\ parameters[1] = word

\* C7 as claimed: FILEHOST info gives the static reply and succeeds for
\* every caller, with or without identity.
C7_InfoForEveryone ==
    (out.op = "FILEHOST" /\ FirstIs(out.parameters, "info")) => IsInfoReply

\* C7 as amended: FILEHOST info gives the static reply and succeeds for
\* every caller with an identity, the same reply whoever calls; a caller
\* without identity gets the denial and the command fails.
C7_InfoForIdentified ==
    (out.op = "FILEHOST" /\ FirstIs(out.parameters, "info"))
        => IF NoIdentity THEN IsDenial ELSE IsInfoReply

\* C7 witness: an identified caller asked for `info` and got the static reply.
C7_Witness ==
    /\ out.op = "FILEHOST"
    /\ FirstIs(out.parameters, "info")
    /\ ~NoIdentity
    /\ IsInfoReply

IsUsageReply ==
    /\ KindsOf(out.notices) = <<"unknown_parameter">>
    /\ out.result = "SUCCESS"
    /\ TokensIn(out.notices) = {}

\* C8 as claimed: FILEHOST with a first argument other than info gives the
\* usage error, succeeds, and sends no upload URL or token.
C8_UsageForEveryone ==
    (out.op = "FILEHOST" /\ out.parameters # <<>> /\ out.parameters[1] # "info")
        => IsUsageReply

\* C8 as amended: for a caller with an identity, FILEHOST with a first
\* argument other than info gives the usage error, succeeds, and sends no
\* upload URL or token; a caller without identity gets the denial, the
\* command fails, and no upload URL or token is sent either.
C8_UsageForIdentified ==
    (out.op = "FILEHOST" /\ out.parameters # <<>> /\ out.parameters[1] # "info")
        => IF NoIdentity THEN IsDenial /\ TokensIn(out.notices) = {} ELSE IsUsageReply

\* C8 witness: an identified caller gave an unknown argument.
C8_Witness ==
    /\ out.op = "FILEHOST"
    /\ out.parameters = <<"list">>
    /\ ~NoIdentity
    /\ IsUsageReply

-----------------------------------------------------------------------------
(* Claims about the tag provider, checked under SpecTag. *)

\* C9: the provider denies the tag reverse.im/filehost on a message of any
\* local user and allows it on a message of any user that is not local, so
\* no client of this server can put the tag on a message.
C9_LocalTagDenied ==
    (out.op = "TAG" /\ out.tagname = "reverse.im/filehost")
        => /\ out.user \in LocalUsers => out.result = "MOD_RES_DENY"
           /\ out.user \notin LocalUsers => out.result = "MOD_RES_ALLOW"

\* C9 witness: a local user sent the tag and the provider denied it.
C9_Witness ==
    /\ out.op = "TAG"
    /\ out.tagname = "reverse.im/filehost"
    /\ out.user \in LocalUsers
    /\ out.result = "MOD_RES_DENY"

\* C10: a peer that receives a message carrying the filehost tag, be it the
\* tagged message or the tag-only message, is shown the tag exactly when it
\* has the reverse.im/filehost capability enabled.
C10_TagOnlyWithCap ==
    out.op = "PRIVMSG"
        => /\ \A u \in out.msgTo :
                 out.tags_out # {} => ((out.msgShown[u] = out.tags_out) <=> u \in fhCap)
           /\ \A u \in out.tagmsgTo :
                 out.tagmsg # {} => ((out.tagmsgShown[u] = out.tagmsg) <=> u \in fhCap)
           /\ \A u \in out.msgTo \ fhCap : out.msgShown[u] = {}
           /\ \A u \in out.tagmsgTo \ fhCap : out.tagmsgShown[u] = {}

\* C10 witness: a tagged message went to two peers, one with the capability,
\* who was shown the tag, and one without it, who has message-tags, got the
\* tag-only message too, and was shown the tag on neither.
C10_Witness ==
    /\ out.op = "PRIVMSG"
    /\ out.tags_out # {}
    /\ out.tagmsg # {}
    /\ \E u, v \in out.msgTo :
          /\ u \in fhCap
          /\ out.msgShown[u] = out.tags_out
          /\ v \notin fhCap
          /\ v \in out.tagmsgTo
          /\ out.msgShown[v] = {}
          /\ out.tagmsgShown[v] = {}

\* `pat` occurs in `s`, told without the search the handlers use
OccursIn(s, pat) == \E i \in 1..(Len(s) - Len(pat) + 1) : SubSeq(s, i, i + Len(pat) - 1) = pat

\* The message handler attached the filehost tag to the message it was given
Tagged == out.op = "PRIVMSG" /\ out.tags_out # NoTags

\* C11: the tag-only broadcast of a tagged message is received by every
\* connected peer that has the filehost capability and by no peer without
\* it, whatever the target of the message.
C11_BroadcastByFilehostCap ==
    Tagged => \A u \in LocalUsers : u \in out.tagmsgTo <=> u \in fhCap

\* C12: the metadata of the tag-only broadcast equals the metadata attached
\* to the outbound message, for every filename.
C12_BroadcastSameMetadata == Tagged => out.tagmsg = out.tags_out

TlsCase(user, text) ==
    /\ cfg.require_ssl
    /\ user \in LocalUsers
    /\ user \notin SecureUsers
    /\ OccursIn(text, cfg.public_url)

ClaimedWhitespace == {" ", "\t", "\r", "\n"}

\* The longest prefix of `run` that does not end in a punctuation character
Trimmed(run) ==
    LET keep == { k \in 1..Len(run) : run[k] \notin Punctuation }
    IN  IF keep = {} THEN <<>> ELSE SubSeq(run, 1, SetMax(keep))

\* The maximal run of non-whitespace characters of `text` from the first
\* occurrence of <publicURL>/files/, trailing punctuation removed
ClaimedUrl(text) ==
    LET first == SetMin({ i \in 1..(Len(text) - Len(FilesPrefix) + 1) :
                             SubSeq(text, i, i + Len(FilesPrefix) - 1) = FilesPrefix })
        stops == { j \in first..Len(text) : text[j] \in ClaimedWhitespace }
        last == IF stops = {} THEN Len(text) ELSE SetMin(stops) - 1
    IN  Trimmed(SubSeq(text, first, last))

\* C14: the detected URL is the maximal run of non-whitespace characters
\* (ending at the first space, tab, CR, LF or the end of the text) from the
\* first occurrence of <publicURL>/files/, with trailing punctuation removed.
C14_UrlIsNonWhitespaceRun == Tagged => out.url = ClaimedUrl(out.text)

\* The part of `url` after its last /files/ segment, without the query
ClaimedFilename(url) ==
    LET at == { i \in 1..(Len(url) - Len(FilesDir) + 1) : SubSeq(url, i, i + Len(FilesDir) - 1) = FilesDir }
        tail == IF at = {} THEN <<>> ELSE SubSeq(url, SetMax(at) + Len(FilesDir), Len(url))
        qs == { j \in 1..Len(tail) : tail[j] = "?" }
    IN  IF qs = {} THEN tail ELSE SubSeq(tail, 1, SetMin(qs) - 1)

\* C15: the filename in the metadata of the message is the part of the URL
\* after the last /files/ segment with the query, from the first "?",
\* removed.
C15_FilenameAfterLastFiles == Tagged => out.filename = ClaimedFilename(out.url)

\* The type the fixed table gives a filename
ClaimedType(filename) ==
    LET dots == { i \in 1..Len(filename) : filename[i] = "." }
        ext == IF dots = {} THEN <<>>
               ELSE ToLowerStr(SubSeq(filename, SetMax(dots) + 1, Len(filename)))
    IN  IF ext = <<>> THEN <<"u", "n", "k", "n", "o", "w", "n">>
        ELSE IF ext \in {<<"p", "n", "g">>, <<"j", "p", "g">>, <<"j", "p", "e", "g">>, <<"g", "i", "f">>, <<"s", "v", "g">>} THEN <<"i", "m", "a", "g", "e">>
        ELSE IF ext \in {<<"t", "x", "t">>, <<"m", "d">>, <<"h", "t", "m", "l">>, <<"h", "t", "m">>, <<"c", "s", "s">>, <<"j", "s">>} THEN <<"t", "e", "x", "t">>
        ELSE IF ext \in {<<"p", "d", "f">>, <<"d", "o", "c">>, <<"d", "o", "c", "x">>} THEN <<"d", "o", "c", "u", "m", "e", "n", "t">>
        ELSE IF ext \in {<<"z", "i", "p">>, <<"t", "a", "r">>, <<"g", "z">>, <<"r", "a", "r">>} THEN <<"a", "r", "c", "h", "i", "v", "e">>
        ELSE <<"b", "i", "n", "a", "r", "y">>

\* C16: the type in the metadata attached to the outbound message follows
\* the fixed table of extensions, and every record carries exactly one of
\* the six types.
C16_TypeByTable == Tagged => out.type = ClaimedType(out.filename)

C19_WitnessRemote ==
    /\ out.op = "PRIVMSG"
    /\ cfg.require_ssl
    /\ out.user \in RemoteUsers
    /\ OccursIn(out.text, FilesPrefix)
    /\ out.result = "MOD_RES_PASSTHRU"

-----------------------------------------------------------------------------
(* Claims about a token through a session, checked under SpecSession. *)

\* C17: token validity carries no server-side state: a token that a
\* verifier with a fixed secret and issuer accepted once is accepted by it
\* on every later verification until its expiry has passed, whatever
\* commands, rehashes, outbound messages and verifications came between.
C17_AcceptedUntilExpired ==
    out.op = "VERIFY_AGAIN"
        => (~(out.at > out.token.exp * TicksPerSec) => out.valid)

\* C17 witness: a token was accepted, the clock went on, the command
\* issued another token and the server was rehashed to another secret, and
\* the first token is accepted again.
C17_Witness ==
    /\ out.op = "VERIFY_AGAIN"
    /\ out.valid
    /\ out.at > out.first
    /\ held.token # out.token
    /\ cfg.jwt_secret # out.secret

-----------------------------------------------------------------------------
(* Claims about the tag handlers, checked under SpecHandlers. *)

\* C18: every tag handler (the filehost handler, the four KiwiIRC
\* providers, the typing handler) returns pass-through for a tag name that
\* is not its own, and changes no state: no usage record is touched.
C18_ForeignTagPassedThrough ==
    /\ (out.op = "KIWITAG" /\ out.name # TagnameOf(out.provider))
          => out.result = "MOD_RES_PASSTHRU" /\ tag_stats = out.before
    /\ (out.op = "TYPINGTAG" /\ out.name \notin {"+typing", "+draft/typing"})
          => out.result = "MOD_RES_PASSTHRU" /\ tag_stats = out.before
    /\ (out.op = "TAG" /\ out.tagname # "reverse.im/filehost")
          => out.result = "MOD_RES_PASSTHRU" /\ tag_stats = out.before

\* C18 witness: a disabled provider, with a usage record already there, was
\* put the tag of another provider and passed it through.
C18_Witness ==
    /\ out.op = "KIWITAG"
    /\ out.provider = "file_uploader_provider"
    /\ ~out.enabled
    /\ out.name = "+kiwiirc.com/conference"
    /\ out.result = "MOD_RES_PASSTHRU"
    /\ \E u \in Users : tag_stats[u] # NoStats

Counters == {"fileupload_count", "conference_count", "tictactoe_count"}

\* The counter a tag name is counted under
CounterOf(name) ==
    CASE name = "+kiwiirc.com/fileuploader" -> "fileupload_count"
      [] name = "+kiwiirc.com/conference" -> "conference_count"
      [] name \in {"+data", "+kiwiirc.com/ttt"} -> "tictactoe_count"

\* The value of counter c in a user's record, 0 when there is no record
CountIn(stats, user, c) == IF stats[user] = NoStats THEN 0 ELSE stats[user][c]

C20_WitnessDenied ==
    /\ out.op = "KIWITAG"
    /\ out.name = TagnameOf(out.provider)
    /\ out.restriction = "admin"
    /\ out.user \in Opers \ Admins
    /\ out.result = "MOD_RES_DENY"

-----------------------------------------------------------------------------
(* Claims about the usage records, checked under SpecStats. *)

\* C21: a usage record is created on its user's first accepted tag: every
\* user who has a record has first_seen <= last_seen and a counter that is
\* not zero, and the K stats report and the operator-rejoin summary create
\* no record.
C21_RecordMeansAcceptedTag ==
    /\ \A u \in Users :
          tag_stats[u] # NoStats
              => /\ tag_stats[u].first_seen <= tag_stats[u].last_seen
                 /\ Active(tag_stats[u])
    /\ out.op \in {"STATS", "REJOIN"} => tag_stats = out.before

-----------------------------------------------------------------------------
(* Claims about the WHOIS filter, checked under SpecWhois. *)

\* C22: the WHOIS line filter never denies 311 or 318; it denies no line
\* when the target is remote, or the source is an operator and opers is on,
\* or the source is the target and selfview is on; in every other case it
\* denies exactly the lines whose numeric an enabled hide_* option covers
\* (312 server, 317 idle, 301 away, 344 and 350 geolocation, 671 secure).
C22_WhoisLineFilter ==
    out.op = "WHOIS" =>
        LET exempt == \/ out.target \in RemoteUsers
                      \/ out.source \in Opers /\ hidewhois.allow_opers
                      \/ out.source = out.target /\ hidewhois.allow_selfview
            covered == \/ out.numeric = 312 /\ hidewhois.hide_server
                       \/ out.numeric = 317 /\ hidewhois.hide_idle
                       \/ out.numeric = 301 /\ hidewhois.hide_away
                       \/ out.numeric \in {344, 350} /\ hidewhois.hide_geolocation
                       \/ out.numeric = 671 /\ hidewhois.hide_secure
        IN  /\ out.numeric \in {311, 318} => out.result = "MOD_RES_PASSTHRU"
            /\ exempt => out.result = "MOD_RES_PASSTHRU"
            /\ ~exempt => (out.result = "MOD_RES_DENY" <=> covered)
            /\ out.result \in {"MOD_RES_DENY", "MOD_RES_PASSTHRU"}

\* C22 witness: with selfview off and opers off, an operator asking about
\* themselves is denied the geolocation line.
C22_Witness ==
    /\ out.op = "WHOIS"
    /\ out.source = out.target
    /\ out.source \in Opers
    /\ ~hidewhois.allow_selfview
    /\ ~hidewhois.allow_opers
    /\ out.numeric = 350
    /\ out.result = "MOD_RES_DENY"

\* With selfview on and opers off, the same line is passed through.
C22_WitnessSelfview ==
    /\ out.op = "WHOIS"
    /\ out.source = out.target
    /\ hidewhois.allow_selfview
    /\ ~hidewhois.allow_opers
    /\ hidewhois.hide_geolocation
    /\ out.numeric = 350
    /\ out.result = "MOD_RES_PASSTHRU"

====
